---- MODULE Spec2Model ----
(***************************************************************************)
(* Mention lifecycle pipeline of bilibili-grok: the SQLite mention store   *)
(* (grok/db.py), the mention monitor (grok/mention.py), the mention        *)
(* handler of the bot (grok/main.py) and the rate-limited comment reply    *)
(* client (grok/reply.py).                                                 *)
(***************************************************************************)
EXTENDS Integers, Sequences, FiniteSets, TLC

(***************************************************************************)
(* Bounds of the model.                                                    *)
(***************************************************************************)
\* the direct store calls use the mention ids 1..MaxId
MaxId == 2
\* a feed page carries at most MaxPage items
MaxPage == 2
\* the event-loop clock runs over 0..MaxTime seconds
MaxTime == 7
\* the database clock runs over 0..MaxClock minutes
MaxClock == 2
\* MentionMonitor.batch_size (a constructor parameter; the default is 20)
batch_size == 2
\* MentionMonitor.poll_interval (a constructor parameter; the default is 60)
poll_interval == 2
\* the POSTs to the reply endpoint are counted up to MaxPosts per mention
MaxPosts == 2
\* MonitorConfig.processing_timeout_minutes (configured; validate_config wants at
\* least 1, the default is 20)
processing_timeout_minutes == 1

(***************************************************************************)
(* Program constants.                                                      *)
(***************************************************************************)
\* CommentReply.rate_limit_seconds
rate_limit_seconds == 3

(***************************************************************************)
(* Values.                                                                 *)
(***************************************************************************)
Ids == 1..MaxId

\* the mention ids the feed serves
FeedIds == 1..6

\* Python None, SQL NULL
None == "None"

\* A kind as the feed encodes it: a JSON number or a JSON string.
Num(n) == <<"int", n>>
Txt(s) == <<"str", s>>
IsStr(v) == v[1] = "str"

\* str.lower() on the strings of the model
Lower(s) ==
    CASE s = "REPLY" -> "reply"
      [] s = "Dynamic" -> "dynamic"
      [] OTHER -> s

Statuses == {"pending", "processing", "replied", "skipped", "failed"}

\* at_time values of the feed
Ctimes == {100, 101}

\* reply texts: the empty string and a non-empty one
Texts == {"", "hi"}

\* every str, the empty one included, counted as true
TruthyNotNone(x) == x # None

\* Python truthiness of a str | None
Truthy(x) == x # None /\ x # ""

\* the tasks that call the reply client
Callers == {"a", "b"}

\* A reply_to_comment call that has not begun. called: the calls that had returned
\* when this one began; wake: the time the throttle sleep ends; issued, completed:
\* the times the POST was sent and answered.
IdleCall == [pc |-> "idle", after |-> {}, wake |-> 0, issued |-> 0, completed |-> 0]

\* the components of GrokBot in the order initialize builds them and in the order
\* shutdown stops or closes them
InitOrder == <<"login", "db", "reply", "context", "monitor", "health", "handlers">>
ShutdownOrder == <<"monitor", "health", "reply", "context", "db", "login", "handlers">>
Components == {ShutdownOrder[i] : i \in 1..Len(ShutdownOrder)}

\* the tasks that call GrokBot.shutdown: the one the signal handler creates and the
\* main task, in the finally clause of main
Tasks == {"signal", "main"}

\* GracefulShutdown after __init__: no callback, the event clear. pc: _shutdown not
\* called ("idle"), in its loop ("running") or over ("ended"); at: the position of
\* the loop; log: the callbacks invoked, each with its position and how it ended.
NewGracefulShutdown ==
    [callbacks |-> <<>>, event |-> FALSE, pc |-> "idle", at |-> 0, log |-> <<>>]

\* GrokBot after __init__: no component yet. phase: initialize under way ("new"),
\* over ("up") or ended by an exception ("failed"); built: the steps of initialize
\* done; ops: per component, the stop or close calls made by shutdown.
NewBot ==
    [shutdown_started |-> FALSE,
     phase |-> "new",
     built |-> 0,
     present |-> {},
     call |-> [t \in Tasks |-> [pc |-> "idle", at |-> 0]],
     ops |-> [c \in Components |-> 0],
     gs |-> NewGracefulShutdown]

\* ret.val is <<v>> for a returned value v and <<>> for None
NoRet == [op |-> "none", id |-> 0, val |-> <<>>]

\* no generate_reply call has been made
NoCall == [pc |-> "idle", task |-> "none", deadline |-> 0, why |-> "none",
           exc |-> "none", mention |-> 0]

VARIABLES
    mentions,        \* the rows of table mentions (Database._conn)
    ret,             \* the last call that returned, with its value
    clock,           \* the database clock, in minutes (CURRENT_TIMESTAMP)
    now,             \* the event-loop clock, in seconds (loop.time())
    running,         \* MentionMonitor._running
    pc,              \* position of the driver task in MentionMonitor.run
    cursor,          \* sync_mentions: cursor
    total_synced,    \* sync_mentions: total_synced
    pending,         \* process_mentions: the part of pending not yet visited
    cur,             \* process_mentions: mention (its id), None outside the loop body
    reply_content,   \* _handle_mention: reply_content / the handler's return value
    slept,           \* run: iterations done of the sleep loop
    posted,          \* per mention id, the number of POSTs made to the reply endpoint
    sweepBase,       \* observer: the rows in the store when the sweep began
    sweepItems,      \* observer: the raw items the sweep has fetched so far
    sweepLast,       \* observer: the last page the sweep fetched: none, empty or items
    last_reply_time, \* CommentReply._last_reply_time
    send,            \* per caller, the state of its reply_to_comment call
    bot,             \* GrokBot: its components, _shutdown_started, the shutdown calls
    gen              \* BilibiliAgent.generate_reply: the call and its agent task

vars == <<mentions, ret, clock, now, running, pc, cursor, total_synced, pending, cur,
          reply_content, slept, posted, sweepBase, sweepItems, sweepLast,
          last_reply_time, send, bot, gen>>

monitorVars == <<running, pc, cursor, total_synced, pending, cur, reply_content, slept>>
observerVars == <<sweepBase, sweepItems, sweepLast>>
replyVars == <<last_reply_time, send>>

(***************************************************************************)
(* The store: db.py                                                        *)
(***************************************************************************)
\* One row of table mentions. The columns oid, root, parent, mid, uname, content,
\* at_details and created_at are carried through unread by the pipeline.
Row(id, type, ctime, status, rc, updated_at) ==
    [id |-> id, type |-> type, ctime |-> ctime, status |-> status,
     reply_content |-> rc, updated_at |-> updated_at]

\* A Mention as the caller builds it (dataclass Mention).
Mention(id, type, ctime, status) ==
    [id |-> id, type |-> type, ctime |-> ctime, status |-> status]

HasId(rows, id) == \E r \in rows : r.id = id

\* INSERT without the PRIMARY KEY check: every insert adds a row.
InsertMentionNoKey(rows, m, t) ==
    [ok |-> TRUE, rows |-> rows \cup {Row(m.id, m.type, m.ctime, m.status, None, t)}]

\* INSERT OR REPLACE: a second insert overwrites the stored row.
InsertMentionReplace(rows, m, t) ==
    [ok |-> ~HasId(rows, m.id),
     rows |-> {r \in rows : r.id # m.id} \cup {Row(m.id, m.type, m.ctime, m.status, None, t)}]

\* Database.insert_mention: INSERT; id is the PRIMARY KEY, so a second row with the
\* same id raises IntegrityError, which is caught and reported as False.
\* reply_content is not among the inserted columns and stays NULL.
InsertMention(rows, m, t) ==
    IF HasId(rows, m.id)
    THEN [ok |-> FALSE, rows |-> rows]
    ELSE [ok |-> TRUE, rows |-> rows \cup {Row(m.id, m.type, m.ctime, m.status, None, t)}]

\* UPDATE that keeps the old reply_content when none is passed.
UpdateMentionStatusKeep(rows, id, status, rc, t) ==
    {IF r.id = id
     THEN [r EXCEPT !.status = status,
                    !.reply_content = IF rc = None THEN @ ELSE rc,
                    !.updated_at = t]
     ELSE r : r \in rows}

\* UPDATE that drops the reply_content argument.
UpdateMentionStatusNoText(rows, id, status, rc, t) ==
    {IF r.id = id
     THEN [r EXCEPT !.status = status, !.reply_content = None, !.updated_at = t]
     ELSE r : r \in rows}

\* UPDATE that leaves the row as it is unless the move is pending to processing or
\* leads from processing
UpdateMentionStatusChecked(rows, id, status, rc, t) ==
    {IF r.id = id /\ (r.status = "processing" \/ (r.status = "pending" /\ status = "processing"))
     THEN [r EXCEPT !.status = status, !.reply_content = rc, !.updated_at = t]
     ELSE r : r \in rows}

\* Database.update_mention_status: UPDATE ... SET status, reply_content, updated_at
\* WHERE id = ?; no row matched is no error.
UpdateMentionStatus(rows, id, status, rc, t) ==
    {IF r.id = id
     THEN [r EXCEPT !.status = status, !.reply_content = rc, !.updated_at = t]
     ELSE r : r \in rows}

PendingRows(rows) == {r \in rows : r.status = "pending"}

\* ORDER BY ctime ASC LIMIT 1
GetOnePendingMentionOldest(rows) ==
    IF PendingRows(rows) = {} THEN {<<>>}
    ELSE {<<r>> : r \in {p \in PendingRows(rows) :
                            \A q \in PendingRows(rows) : q.ctime >= p.ctime}}

\* ORDER BY ctime DESC LIMIT 1 without the WHERE clause
GetOnePendingMentionAnyStatus(rows) ==
    IF rows = {} THEN {<<>>}
    ELSE {<<r>> : r \in {p \in rows : \A q \in rows : q.ctime <= p.ctime}}

\* Database.get_one_pending_mention: WHERE status = 'pending' ORDER BY ctime DESC
\* LIMIT 1. The set of results the query may give (rows of equal ctime are in no
\* defined order): <<row>>, or <<>> for None when no row matches.
GetOnePendingMention(rows) ==
    IF PendingRows(rows) = {} THEN {<<>>}
    ELSE {<<r>> : r \in {p \in PendingRows(rows) :
                            \A q \in PendingRows(rows) : q.ctime <= p.ctime}}

Min(a, b) == IF a < b THEN a ELSE b

\* the sequences over S without repetition, of length n
RECURSIVE Arrangements(_, _)
Arrangements(S, n) ==
    IF n = 0 THEN {<<>>}
    ELSE UNION {{<<x>> \o s : s \in Arrangements(S \ {x}, n - 1)} : x \in S}

\* ORDER BY ctime ASC / DESC: a may come before b
Before(a, b, desc) == IF desc THEN a.ctime >= b.ctime ELSE a.ctime <= b.ctime

\* ORDER BY ctime [DESC] LIMIT n over the rows `among`: the lists the query may
\* return. Every row of a list may come before the rows after it and before the
\* rows left out (rows of equal ctime are in no defined order).
FirstRows(among, n, desc) ==
    {s \in Arrangements(among, Min(n, Cardinality(among))) :
        /\ \A i, j \in 1..Len(s) : i < j => Before(s[i], s[j], desc)
        /\ \A i \in 1..Len(s) : \A q \in among :
              (\A k \in 1..Len(s) : s[k] # q) => Before(s[i], q, desc)}

\* ORDER BY ctime DESC LIMIT ?
GetPendingMentionsNewest(rows, limit) == FirstRows(PendingRows(rows), limit, TRUE)

\* ORDER BY ctime ASC LIMIT ? without the WHERE clause
GetPendingMentionsAnyStatus(rows, limit) == FirstRows(rows, limit, FALSE)

\* WHERE status = 'pending' ORDER BY ctime ASC without the LIMIT
GetPendingMentionsNoLimit(rows, limit) ==
    FirstRows(PendingRows(rows), Cardinality(rows), FALSE)

\* Database.get_pending_mentions: WHERE status = 'pending' ORDER BY ctime ASC LIMIT ?
\* The set of lists the query may return.
GetPendingMentions(rows, limit) == FirstRows(PendingRows(rows), limit, FALSE)

(***************************************************************************)
(* The feed and the actionability filter: mention.py                       *)
(***************************************************************************)
\* A raw feed item (MentionItem.raw): id, item.type, item.hide_reply_button, at_time.
Item(id, type, hide, at_time) ==
    [id |-> id, type |-> type, hide_reply_button |-> hide, at_time |-> at_time]

\* The items the feed serves. Mention 1 comes in both encodings of the reply kind;
\* mention 2 is a dynamic-post mention, its kind capitalised; mention 3 has numeric
\* kind 2; mentions 4 and 5 have other kinds; mention 6 has its reply button hidden.
FeedItems ==
    {Item(1, Num(1), FALSE, 101), Item(1, Txt("reply"), FALSE, 101),
     Item(2, Txt("Dynamic"), FALSE, 100),
     Item(3, Num(2), FALSE, 101),
     Item(4, Num(3), FALSE, 100),
     Item(5, Txt("like"), FALSE, 100),
     Item(6, Num(1), TRUE, 100)}

\* the cursor values the feed returns; 0 ends the pagination
Cursors == {0, 20}

\* the lists over S of length at most n
RECURSIVE Lists(_, _)
Lists(S, n) ==
    IF n = 0 THEN {<<>>}
    ELSE Lists(S, n - 1) \cup {<<x>> \o l : x \in S, l \in {m \in Lists(S, n - 1) : Len(m) = n - 1}}

\* the pages fetch_mention_list may return
Pages == Lists(FeedItems, MaxPage)

\* filter_valid_mentions: valid_types
valid_types == {Num(1), Num(2), Num(17), Txt("reply"), Txt("dynamic")}

\* filter_valid_mentions: type_val, lower-cased when it is a str
TypeVal(type) == IF IsStr(type) THEN Txt(Lower(type[2])) ELSE type

\* the loop body without the hide_reply_button test
IsValidMentionIgnoringHide(mention) == TypeVal(mention.type) \in valid_types

\* the loop body without str.lower
IsValidMentionNoLower(mention) ==
    ~mention.hide_reply_button /\ mention.type \in valid_types

\* filter_valid_mentions, the loop body: the mention is appended to valid
IsValidMention(mention) ==
    /\ ~mention.hide_reply_button
    /\ TypeVal(mention.type) \in valid_types

\* MentionMonitor.filter_valid_mentions
FilterValidMentions(list) == SelectSeq(list, IsValidMention)

\* sync_mentions, lines 192-209: the Mention built from a valid item, status pending
DbMention(mention) == Mention(mention.id, mention.type, mention.at_time, "pending")

\* the inserts of a page, every one counted as new
RECURSIVE InsertAllCounted(_, _, _, _)
InsertAllCounted(rows, n, valid, t) ==
    IF valid = <<>> THEN [rows |-> rows, n |-> n]
    ELSE InsertAllCounted(InsertMention(rows, DbMention(Head(valid)), t).rows,
                          n + 1, Tail(valid), t)

\* the inserts of a page, given up at the first insert that returns False
RECURSIVE InsertAllStopAtKnown(_, _, _, _)
InsertAllStopAtKnown(rows, n, valid, t) ==
    IF valid = <<>> THEN [rows |-> rows, n |-> n]
    ELSE LET res == InsertMention(rows, DbMention(Head(valid)), t)
         IN IF res.ok THEN InsertAllStopAtKnown(res.rows, n + 1, Tail(valid), t)
            ELSE [rows |-> rows, n |-> n]

\* sync_mentions, lines 192-209: the inserts of a page's valid mentions, in order,
\* from the table rows and the count n of inserts that returned True
RECURSIVE InsertAll(_, _, _, _)
InsertAll(rows, n, valid, t) ==
    IF valid = <<>> THEN [rows |-> rows, n |-> n]
    ELSE LET res == InsertMention(rows, DbMention(Head(valid)), t)
         IN InsertAll(res.rows, IF res.ok THEN n + 1 ELSE n, Tail(valid), t)

(***************************************************************************)
(* sync_mentions. `direct` tells the caller: the test harness (TRUE), which *)
(* sets _running itself and receives the return value, or run (FALSE).      *)
(***************************************************************************)
\* sync_mentions returns total_synced (line 215); run drops the value (line 266)
SyncReturn(direct, n) ==
    IF direct
    THEN pc' = "init" /\ ret' = [op |-> "sync_mentions", id |-> 0, val |-> <<n>>]
    ELSE pc' = "process" /\ UNCHANGED ret

\* monitor._running = True; await monitor.sync_mentions() (lines 168-172)
CallSyncMentions ==
    /\ pc = "init"
    /\ running' = TRUE
    /\ pc' = "sync"
    /\ cursor' = 0
    /\ total_synced' = 0
    /\ ret' = NoRet
    /\ sweepBase' = mentions
    /\ sweepItems' = {}
    /\ sweepLast' = "none"
    /\ UNCHANGED <<mentions, clock, now, posted, pending, cur, reply_content, slept, replyVars, bot, gen>>

\* the loop head with _running False: break (lines 175-177)
SyncStopped(direct) ==
    /\ pc = "sync"
    /\ ~running
    /\ SyncReturn(direct, total_synced)
    /\ UNCHANGED <<mentions, clock, now, posted, running, cursor, total_synced, pending, cur,
                   reply_content, slept, observerVars, replyVars, bot, gen>>

\* one pass of the loop that ends on cursor 0 before it stores the page
SyncPageDropLast(direct, mentions_, next) ==
    /\ pc = "sync"
    /\ running
    /\ cursor' = next
    /\ IF mentions_ = <<>> \/ next = 0
       THEN /\ SyncReturn(direct, total_synced)
            /\ UNCHANGED <<mentions, total_synced>>
       ELSE LET res == InsertAll(mentions, total_synced, FilterValidMentions(mentions_), clock)
            IN /\ mentions' = res.rows
               /\ total_synced' = res.n
               /\ pc' = "sync" /\ UNCHANGED ret
    /\ sweepItems' = IF direct THEN sweepItems \cup {mentions_[i] : i \in 1..Len(mentions_)}
                     ELSE sweepItems
    /\ sweepLast' = IF ~direct THEN sweepLast
                    ELSE IF mentions_ = <<>> THEN "empty" ELSE "items"
    /\ UNCHANGED <<clock, now, posted, running, pending, cur, reply_content, slept, sweepBase,
                   replyVars, bot, gen>>

\* one pass of the loop (lines 174-212) on the page and cursor the feed returns
SyncPage(direct, mentions_, next) ==
    /\ pc = "sync"
    /\ running
    /\ cursor' = next
    /\ IF mentions_ = <<>>
       THEN /\ SyncReturn(direct, total_synced)
            /\ UNCHANGED <<mentions, total_synced>>
       ELSE LET res == InsertAll(mentions, total_synced, FilterValidMentions(mentions_), clock)
            IN /\ mentions' = res.rows
               /\ total_synced' = res.n
               /\ IF next = 0
                  THEN SyncReturn(direct, res.n)
                  ELSE pc' = "sync" /\ UNCHANGED ret
    /\ sweepItems' = IF direct THEN sweepItems \cup {mentions_[i] : i \in 1..Len(mentions_)}
                     ELSE sweepItems
    /\ sweepLast' = IF ~direct THEN sweepLast
                    ELSE IF mentions_ = <<>> THEN "empty" ELSE "items"
    /\ UNCHANGED <<clock, now, posted, running, pending, cur, reply_content, slept, sweepBase,
                   replyVars, bot, gen>>

\* a fetch error that ends the driver
SyncFetchErrorFatal(direct) ==
    /\ pc = "sync"
    /\ running
    /\ running' = FALSE
    /\ pc' = "done"
    /\ UNCHANGED <<mentions, ret, clock, now, posted, cursor, total_synced, pending, cur,
                   reply_content, slept, observerVars, replyVars, bot, gen>>

\* fetch_mention_list raises (HTTP error, or a response code other than 0)
SyncFetchError(direct) ==
    /\ pc = "sync"
    /\ running
    /\ IF direct
       THEN pc' = "init" /\ ret' = [op |-> "sync_mentions raised", id |-> 0, val |-> <<>>]
       ELSE pc' = "sleep" /\ UNCHANGED ret
    /\ UNCHANGED <<mentions, clock, now, posted, running, cursor, total_synced, pending, cur,
                   reply_content, slept, observerVars, replyVars, bot, gen>>

\* MentionMonitor.stop
Stop ==
    /\ running' = FALSE
    /\ UNCHANGED <<mentions, ret, clock, now, posted, pc, cursor, total_synced, pending, cur,
                   reply_content, slept, observerVars, replyVars, bot, gen>>

(***************************************************************************)
(* The store called directly (as tests/test_db.py does)                    *)
(***************************************************************************)
\* the Mention arguments of the direct calls, in the statuses tests/test_db.py
\* inserts
MentionInputs ==
    {Mention(id, Num(1), c, s) : id \in Ids, c \in Ctimes,
                                 s \in {"pending", "replied", "failed"}}

InitVolatile ==
    /\ running = FALSE
    /\ pc = "init"
    /\ cursor = 0
    /\ total_synced = 0
    /\ pending = <<>>
    /\ cur = None
    /\ reply_content = None
    /\ slept = 0
    /\ last_reply_time = 0

Init ==
    /\ mentions = {}
    /\ ret = NoRet
    /\ clock = 0
    /\ now = 0
    /\ posted = [i \in FeedIds |-> 0]
    /\ sweepBase = {}
    /\ sweepItems = {}
    /\ sweepLast = "none"
    /\ send = [c \in Callers |-> IdleCall]
    /\ bot = NewBot
    /\ gen = NoCall
    /\ InitVolatile

CallInsertMention(m) ==
    /\ mentions' = InsertMention(mentions, m, clock).rows
    /\ ret' = [op |-> "insert_mention", id |-> m.id, val |-> <<InsertMention(mentions, m, clock).ok>>]
    /\ UNCHANGED <<clock, now, posted, monitorVars, observerVars, replyVars, bot, gen>>

CallUpdateMentionStatus(id, status, rc) ==
    /\ mentions' = UpdateMentionStatus(mentions, id, status, rc, clock)
    /\ ret' = [op |-> "update_mention_status", id |-> id, val |-> <<>>]
    /\ UNCHANGED <<clock, now, posted, monitorVars, observerVars, replyVars, bot, gen>>

CallGetOnePendingMention ==
    /\ \E r \in GetOnePendingMention(mentions) :
          ret' = [op |-> "get_one_pending_mention", id |-> 0, val |-> r]
    /\ UNCHANGED <<mentions, clock, now, posted, monitorVars, observerVars, replyVars, bot, gen>>

\* SUM(CASE WHEN status = ? THEN 1 ELSE 0 END): NULL over an empty table
SumStatus(rows, status) ==
    IF rows = {} THEN <<>> ELSE <<Cardinality({r \in rows : r.status = status})>>

\* Database.get_stats (lines 186-198): COUNT(*) and one SUM for each of pending,
\* processing, replied and failed
GetStats(rows) ==
    [total |-> Cardinality(rows),
     pending |-> SumStatus(rows, "pending"),
     processing |-> SumStatus(rows, "processing"),
     replied |-> SumStatus(rows, "replied"),
     failed |-> SumStatus(rows, "failed")]

CallGetStats ==
    /\ ret' = [op |-> "get_stats", id |-> 0, val |-> <<GetStats(mentions)>>]
    /\ UNCHANGED <<mentions, clock, now, posted, monitorVars, observerVars, replyVars, bot, gen>>

NextStore ==
    \/ CallGetStats
    \/ \E m \in MentionInputs : CallInsertMention(m)
    \/ \E id \in Ids \cup {MaxId + 1}, s \in Statuses, rc \in {None, "hi"} :
          CallUpdateMentionStatus(id, s, rc)
    \/ CallGetOnePendingMention

SpecStore == Init /\ [][NextStore]_vars

(***************************************************************************)
(* CommentReply: reply.py                                                  *)
(***************************************************************************)
\* a sleep of one second whatever the timestamp
SleepUntilShort(last, t) == t + 1

\* _check_rate_limit, lines 71-74: the time at which
\* asyncio.sleep(rate_limit_seconds - time_since_last), begun at time t, is over
SleepUntil(last, t) == t + (rate_limit_seconds - (t - last))

\* reply_to_comment is called by task c (line 127)
CallReply(c) ==
    /\ send[c].pc = "idle"
    /\ send' = [send EXCEPT ![c].pc = "called",
                            ![c].after = {d \in Callers : send[d].pc = "done"}]
    /\ UNCHANGED <<mentions, ret, clock, now, posted, monitorVars, observerVars,
                   last_reply_time, bot, gen>>

\* _check_rate_limit, lines 70-76, up to its first suspension: with the interval
\* elapsed the timestamp is set and the POST sent (lines 129-149) at once, else
\* the task sleeps
CheckRateLimit(c) ==
    /\ send[c].pc = "called"
    /\ IF now - last_reply_time < rate_limit_seconds
       THEN /\ send' = [send EXCEPT ![c].pc = "sleeping",
                                    ![c].wake = SleepUntil(last_reply_time, now)]
            /\ UNCHANGED last_reply_time
       ELSE /\ last_reply_time' = now
            /\ send' = [send EXCEPT ![c].pc = "posting", ![c].issued = now]
    /\ UNCHANGED <<mentions, ret, clock, now, posted, monitorVars, observerVars, bot, gen>>

\* _check_rate_limit, line 76, after the sleep: the timestamp is set and the POST
\* sent (lines 129-149)
WakeUp(c) ==
    /\ send[c].pc = "sleeping"
    /\ now >= send[c].wake
    /\ last_reply_time' = now
    /\ send' = [send EXCEPT ![c].pc = "posting", ![c].issued = now]
    /\ UNCHANGED <<mentions, ret, clock, now, posted, monitorVars, observerVars, bot, gen>>

\* The answers to the POST: a JSON body with a code, a JSON body without one, and
\* an HTTP error status.
Codes == {0, -101, -102, -104, -412, 12002, 12030, -1, 12015}
Responses == {<<"code", k>> : k \in Codes} \cup {<<"nocode", 0>>, <<"http", 500>>}

\* the outcome of a call: the value returned or the exception raised, with the
\* code when the message carries it
Returned == [kind |-> "return", msg |-> "data", carries |-> <<>>]
Raised(cls, msg, carries) == [kind |-> cls, msg |-> msg, carries |-> carries]

\* the exception classes that are ReplyError or derive from it (lines 20-35)
ReplyErrors == {"ReplyError", "CommentDeletedError", "RateLimitError"}

\* every code other than 0 returns the data
ReplyOutcomeLenient(resp) ==
    IF resp[1] = "http" THEN Raised("HTTPStatusError", "status", <<>>)
    ELSE LET code == IF resp[1] = "nocode" THEN -1 ELSE resp[2]
         IN IF code \in {-101, -102, -104, -412, 12002, 12030}
            THEN Raised("ReplyError", "mapped", <<>>)
            ELSE Returned

\* reply_to_comment, lines 150-174: raise_for_status, then the code of the body
ReplyOutcome(resp) ==
    IF resp[1] = "http" THEN Raised("HTTPStatusError", "status", <<>>)
    ELSE LET code == IF resp[1] = "nocode" THEN -1 ELSE resp[2]
         IN CASE code = -101 -> Raised("ReplyError", "Not logged in", <<>>)
              [] code = -102 -> Raised("ReplyError", "Account disabled", <<>>)
              [] code = -104 -> Raised("RateLimitError", "Rate limit exceeded", <<>>)
              [] code = -412 -> Raised("ReplyError", "Request blocked", <<>>)
              [] code = 12002 -> Raised("CommentDeletedError", "Comment was deleted", <<>>)
              [] code = 12030 -> Raised("ReplyError", "Cannot reply to this comment", <<>>)
              [] code # 0 /\ code \notin {-101, -102, -104, -412, 12002, 12030}
                    -> Raised("ReplyError", "Failed to reply", <<code>>)
              [] OTHER -> Returned

\* the response to the POST arrives and reply_to_comment returns or raises
\* (lines 150-174)
PostDone(c, resp) ==
    /\ send[c].pc = "posting"
    /\ send' = [send EXCEPT ![c].pc = "done", ![c].completed = now]
    /\ ret' = [op |-> "reply_to_comment", id |-> 0, val |-> <<resp, ReplyOutcome(resp)>>]
    /\ UNCHANGED <<mentions, clock, now, posted, monitorVars, observerVars,
                   last_reply_time, bot, gen>>

\* a second passes on the event-loop clock
TickSecond ==
    /\ now < MaxTime
    /\ now' = now + 1
    /\ UNCHANGED <<mentions, ret, clock, posted, monitorVars, observerVars, replyVars, bot, gen>>

NextReply ==
    \/ \E c \in Callers : CallReply(c)
    \/ \E c \in Callers : CheckRateLimit(c)
    \/ \E c \in Callers : WakeUp(c)
    \/ \E c \in Callers, resp \in Responses : PostDone(c, resp)
    \/ TickSecond

\* one CommentReply called by the tasks
SpecReply == Init /\ [][NextReply]_vars

(***************************************************************************)
(* Claims on the reply client                                              *)
(***************************************************************************)
\* b's call began after a's call had returned, and b's POST has been sent
Consecutive(a, b) == a \in send[b].after /\ send[b].pc \in {"posting", "done"}

\* C10 (as claimed): the POST of the second of two consecutive calls is sent at
\* least rate_limit_seconds after the first call completed.
C10_IntervalSinceCompletion ==
    \A a, b \in Callers :
        Consecutive(a, b) => send[b].issued - send[a].completed >= rate_limit_seconds

\* C10 (amended): the POST of the second of two consecutive calls is sent at least
\* rate_limit_seconds after the POST of the first was sent.
C10_IntervalSinceIssue ==
    \A a, b \in Callers :
        Consecutive(a, b) => send[b].issued - send[a].issued >= rate_limit_seconds

\* two consecutive calls have returned, the first POST having taken a second and
\* the second call having slept to the end of the interval
C10_Witness ==
    \E a, b \in Callers :
        /\ Consecutive(a, b)
        /\ send[b].pc = "done"
        /\ send[a].completed > send[a].issued
        /\ send[b].wake = send[a].issued + rate_limit_seconds
        /\ send[b].issued = send[b].wake

\* C11 (as claimed): the POSTs of two calls on one dispatcher, in flight at the
\* same time or not, are sent at least rate_limit_seconds apart.
C11_ConcurrentInterval ==
    \A a, b \in Callers :
        (a # b /\ send[a].pc \in {"posting", "done"} /\ send[b].pc \in {"posting", "done"})
           => \/ send[b].issued - send[a].issued >= rate_limit_seconds
              \/ send[a].issued - send[b].issued >= rate_limit_seconds

\* C12: reply_to_comment returns the data exactly when the body carries code 0; the
\* codes -101, -102, -412 and 12030 raise ReplyError, -104 RateLimitError, 12002
\* CommentDeletedError, and every other code, a missing code included (read as -1),
\* raises a ReplyError that carries the code.
C12_CodeMapping ==
    [][\A c \in Callers, resp \in Responses :
          (ret'.op = "reply_to_comment" /\ ret'.val[1] = resp /\ PostDone(c, resp)
             /\ resp[1] # "http") =>
          LET code == IF resp[1] = "nocode" THEN -1 ELSE resp[2]
              out == ret'.val[2]
          IN /\ (out.kind = "return") <=> (resp = <<"code", 0>>)
             /\ code \in {-101, -102, -412, 12030} => out.kind = "ReplyError"
             /\ code = -104 => out.kind = "RateLimitError"
             /\ code = 12002 => out.kind = "CommentDeletedError"
             /\ code \notin {0, -101, -102, -104, -412, 12002, 12030}
                   => out.kind = "ReplyError" /\ out.carries = <<code>>
             /\ code # 0 => out.kind \in ReplyErrors]_vars

\* calls have ended on a body without a code, raising a ReplyError that carries -1,
\* after an earlier call of the dispatcher had ended
C12_Witness ==
    /\ ret.op = "reply_to_comment"
    /\ ret.val[1] = <<"nocode", 0>>
    /\ ret.val[2] = Raised("ReplyError", "Failed to reply", <<-1>>)
    /\ \E a, b \in Callers : a # b /\ send[a].pc = "done" /\ send[b].pc = "done"

(***************************************************************************)
(* Claims on the store                                                     *)
(***************************************************************************)
UniqueIds(rows) == \A r1, r2 \in rows : r1.id = r2.id => r1 = r2

\* C1: every insert_mention call leaves at most one row per id; on an id that is not
\* stored it returns True and stores the record (reply text NULL), and on a stored
\* id it returns False and leaves the table, status and reply text included, as it was.
C1_InsertDedup ==
    [][\A m \in MentionInputs :
          (ret'.op = "insert_mention" /\ ret'.id = m.id /\ CallInsertMention(m)) =>
          /\ UniqueIds(mentions')
          /\ IF HasId(mentions, m.id)
             THEN ret'.val = <<FALSE>> /\ mentions' = mentions
             ELSE /\ ret'.val = <<TRUE>>
                  /\ {r \in mentions' : r.id # m.id} = mentions
                  /\ \E r \in mentions' :
                        /\ r.id = m.id /\ r.type = m.type /\ r.ctime = m.ctime
                        /\ r.status = m.status /\ r.reply_content = None]_vars

\* a second insert of a replied record's id has returned False and the row still
\* carries its status and reply text
C1_Witness ==
    /\ ret.op = "insert_mention"
    /\ ret.val = <<FALSE>>
    /\ \E r \in mentions :
          r.id = ret.id /\ r.status = "replied" /\ r.reply_content = "hi"

\* C6: get_one_pending_mention changes no row; it returns None exactly when no row
\* is pending, and otherwise a stored row that is pending and whose ctime is the
\* greatest among the pending rows.
C6_NewestPending ==
    [][CallGetOnePendingMention =>
          /\ mentions' = mentions
          /\ (ret'.val = <<>>) <=> (\A q \in mentions : q.status # "pending")
          /\ ret'.val # <<>> =>
                /\ ret'.val[1] \in mentions
                /\ ret'.val[1].status = "pending"
                /\ \A q \in mentions :
                      q.status = "pending" => q.ctime <= ret'.val[1].ctime]_vars

\* the call returned the newer of two pending rows, which is the one with the
\* smaller id
C6_Witness ==
    /\ ret.op = "get_one_pending_mention"
    /\ ret.val # <<>>
    /\ \E q \in mentions :
          /\ q.status = "pending" /\ q.ctime < ret.val[1].ctime /\ q.id > ret.val[1].id

\* C20 (as claimed): update_mention_status on an id that is not stored raises
\* NotFound and leaves the table as it was.
C20_UpdateMissingNotFound ==
    [][\A id \in Ids \cup {MaxId + 1}, s \in Statuses, rc \in {None, "hi"} :
          (ret'.op = "update_mention_status" /\ ret'.id = id /\ ~HasId(mentions, id)
             /\ CallUpdateMentionStatus(id, s, rc))
             => ret'.val = <<"NotFound">> /\ mentions' = mentions]_vars

(***************************************************************************)
(* MentionMonitor.run with GrokBot._handle_mention as the handler           *)
(***************************************************************************)
\* run, lines 260-261
Run ==
    /\ pc = "init"
    /\ running' = TRUE
    /\ pc' = "loop"
    /\ UNCHANGED <<mentions, ret, clock, now, posted, cursor, total_synced, pending, cur,
                   reply_content, slept, observerVars, replyVars, bot, gen>>

\* run, line 263: while self._running; the body begins with sync_mentions
\* (lines 168-172), and run returns when the flag is down
LoopHead ==
    /\ pc = "loop"
    /\ IF running
       THEN pc' = "sync" /\ cursor' = 0 /\ total_synced' = 0
       ELSE pc' = "done" /\ UNCHANGED <<cursor, total_synced>>
    /\ UNCHANGED <<mentions, ret, clock, now, posted, running, pending, cur, reply_content,
                   slept, observerVars, replyVars, bot, gen>>

\* process_mentions, lines 219-229: return when stopped or when nothing is pending
ProcessEnter ==
    /\ pc = "process"
    /\ IF ~running
       THEN pc' = "sleep" /\ UNCHANGED pending
       ELSE \E l \in GetPendingMentions(mentions, batch_size) :
               /\ pending' = [i \in 1..Len(l) |-> l[i].id]
               /\ pc' = IF l = <<>> THEN "sleep" ELSE "batch"
    /\ UNCHANGED <<mentions, ret, clock, now, posted, running, cursor, total_synced, cur,
                   reply_content, slept, observerVars, replyVars, bot, gen>>

\* the loop head without the test of the flag
BatchStepDeaf ==
    /\ pc = "batch"
    /\ IF pending = <<>>
       THEN /\ pc' = "sleep"
            /\ pending' = <<>>
            /\ cur' = None
            /\ UNCHANGED mentions
       ELSE /\ mentions' = UpdateMentionStatus(mentions, Head(pending), "processing", None, clock)
            /\ cur' = Head(pending)
            /\ pending' = Tail(pending)
            /\ pc' = "generate"
    /\ reply_content' = None
    /\ UNCHANGED <<ret, clock, now, posted, running, cursor, total_synced, slept, observerVars,
                   replyVars, bot, gen>>

\* the loop head without the write of processing
BatchStepUnmarked ==
    /\ pc = "batch"
    /\ IF pending = <<>> \/ ~running
       THEN /\ pc' = "sleep"
            /\ pending' = <<>>
            /\ cur' = None
       ELSE /\ cur' = Head(pending)
            /\ pending' = Tail(pending)
            /\ pc' = "generate"
    /\ reply_content' = None
    /\ UNCHANGED <<mentions, ret, clock, now, posted, running, cursor, total_synced, slept,
                   observerVars, replyVars, bot, gen>>

\* process_mentions, lines 231-242: the loop head; the mention is marked processing
\* and handed to the handler
BatchStep ==
    /\ pc = "batch"
    /\ IF pending = <<>> \/ ~running
       THEN /\ pc' = "sleep"
            /\ pending' = <<>>
            /\ cur' = None
            /\ UNCHANGED mentions
       ELSE /\ mentions' = UpdateMentionStatus(mentions, Head(pending), "processing", None, clock)
            /\ cur' = Head(pending)
            /\ pending' = Tail(pending)
            /\ pc' = "generate"
    /\ reply_content' = None
    /\ UNCHANGED <<ret, clock, now, posted, running, cursor, total_synced, slept, observerVars,
                   replyVars, bot, gen>>

\* _handle_mention, lines 140-217: the context is fetched and generate_reply
\* returns a text
HandlerGenerate(text) ==
    /\ pc = "generate"
    /\ reply_content' = text
    /\ pc' = "reply"
    /\ UNCHANGED <<mentions, ret, clock, now, posted, running, cursor, total_synced, pending,
                   cur, slept, observerVars, replyVars, bot, gen>>

\* _handle_mention, lines 140-217 and 230-232: a context fetch or generate_reply
\* raises (AgentError on failure, timeout or cancellation); the handler returns None
HandlerGenerateFails ==
    /\ pc = "generate"
    /\ reply_content' = None
    /\ pc' = "handled"
    /\ UNCHANGED <<mentions, ret, clock, now, posted, running, cursor, total_synced, pending,
                   cur, slept, observerVars, replyVars, bot, gen>>

\* _handle_mention, lines 219-232: reply_to_mention waits out the throttle and posts
\* the reply; with response code 0 the handler returns the text, and on an error
\* response it returns None
HandlerReply(ok) ==
    /\ pc = "reply"
    /\ posted[cur] < MaxPosts
    /\ posted' = [posted EXCEPT ![cur] = @ + 1]
    /\ last_reply_time' = now
    /\ reply_content' = IF ok THEN reply_content ELSE None
    /\ pc' = "handled"
    /\ UNCHANGED <<mentions, ret, clock, now, running, cursor, total_synced, pending, cur,
                   slept, observerVars, send, bot, gen>>

\* process_mentions, lines 244-253: break when stopped, else the terminal write;
\* mention and reply_content keep their values until the loop takes the next mention
\* or the function returns
AfterHandler ==
    /\ pc = "handled"
    /\ IF ~running
       THEN /\ pc' = "sleep"
            /\ pending' = <<>>
            /\ cur' = None
            /\ reply_content' = None
            /\ UNCHANGED mentions
       ELSE /\ mentions' =
                  IF Truthy(reply_content)
                  THEN UpdateMentionStatus(mentions, cur, "replied", reply_content, clock)
                  ELSE UpdateMentionStatus(mentions, cur, "skipped", None, clock)
            /\ pc' = "batch"
            /\ UNCHANGED <<pending, cur, reply_content>>
    /\ UNCHANGED <<ret, clock, now, posted, running, cursor, total_synced, slept,
                   observerVars, replyVars, bot, gen>>

\* the sleep loop without the test of the flag
SleepTickDeaf ==
    /\ pc = "sleep"
    /\ slept < poll_interval
    /\ slept' = slept + 1
    /\ UNCHANGED <<mentions, ret, clock, now, posted, running, pc, cursor, total_synced,
                   pending, cur, reply_content, observerVars, replyVars, bot, gen>>

\* run, lines 275-278: one pass of the sleep loop, asyncio.sleep(1)
SleepTick ==
    /\ pc = "sleep"
    /\ slept < poll_interval
    /\ running
    /\ slept' = slept + 1
    /\ UNCHANGED <<mentions, ret, clock, now, posted, running, pc, cursor, total_synced,
                   pending, cur, reply_content, observerVars, replyVars, bot, gen>>

\* run, lines 275-277: the sleep loop ends, by exhaustion or by break
SleepDone ==
    /\ pc = "sleep"
    /\ slept = poll_interval \/ ~running
    /\ slept' = 0
    /\ pc' = "loop"
    /\ UNCHANGED <<mentions, ret, clock, now, posted, running, cursor, total_synced, pending,
                   cur, reply_content, observerVars, replyVars, bot, gen>>

\* The process ends (it returns, or it is killed at any point) and is started
\* again on the same database file: the objects are constructed anew, the table
\* and the replies posted on the platform stay.
Restart ==
    /\ pc # "init"
    /\ running' = FALSE
    /\ pc' = "init"
    /\ cursor' = 0
    /\ total_synced' = 0
    /\ pending' = <<>>
    /\ cur' = None
    /\ reply_content' = None
    /\ slept' = 0
    /\ last_reply_time' = 0
    /\ gen' = NoCall
    /\ UNCHANGED <<mentions, ret, clock, now, posted, observerVars, send, bot>>

Next ==
    \/ Run
    \/ LoopHead
    \/ SyncStopped(FALSE)
    \/ \E mentions_ \in Pages, next \in Cursors : SyncPage(FALSE, mentions_, next)
    \/ SyncFetchError(FALSE)
    \/ ProcessEnter
    \/ BatchStep
    \/ \E text \in Texts : HandlerGenerate(text)
    \/ HandlerGenerateFails
    \/ \E resp \in Responses : HandlerReply(ReplyOutcome(resp).kind = "return")
    \/ AfterHandler
    \/ SleepTick
    \/ SleepDone
    \/ Stop
    \/ Restart

Spec == Init /\ [][Next]_vars

\* a minute passes on the database clock
Tick ==
    /\ clock < MaxClock
    /\ clock' = clock + 1
    /\ UNCHANGED <<mentions, ret, now, posted, monitorVars, observerVars, replyVars, bot, gen>>

NextTimed == Next \/ Tick

\* the pipeline with the database clock running
SpecTimed == Init /\ [][NextTimed]_vars

(***************************************************************************)
(* MentionMonitor.run with any handler: one that returns a text or None, or *)
(* raises                                                                  *)
(***************************************************************************)
\* process_mentions, line 242: the handler returns v
HandlerReturns(v) ==
    /\ pc = "generate"
    /\ reply_content' = v
    /\ pc' = "handled"
    /\ UNCHANGED <<mentions, ret, clock, now, posted, running, cursor, total_synced, pending,
                   cur, slept, observerVars, replyVars, bot, gen>>

\* the error ends the batch
HandlerRaisesAbort ==
    /\ pc = "generate"
    /\ mentions' = UpdateMentionStatus(mentions, cur, "failed", None, clock)
    /\ pc' = "sleep"
    /\ pending' = <<>>
    /\ UNCHANGED <<ret, clock, now, posted, running, cursor, total_synced, cur, reply_content,
                   slept, observerVars, replyVars, bot, gen>>

\* process_mentions, lines 242 and 254-256: the handler raises an Exception, the
\* mention is marked failed and the loop goes on
HandlerRaises ==
    /\ pc = "generate"
    /\ mentions' = UpdateMentionStatus(mentions, cur, "failed", None, clock)
    /\ pc' = "batch"
    /\ UNCHANGED <<ret, clock, now, posted, running, cursor, total_synced, pending, cur,
                   reply_content, slept, observerVars, replyVars, bot, gen>>

NextMonitor ==
    \/ Run
    \/ LoopHead
    \/ SyncStopped(FALSE)
    \/ \E mentions_ \in Pages, next \in Cursors : SyncPage(FALSE, mentions_, next)
    \/ SyncFetchError(FALSE)
    \/ ProcessEnter
    \/ BatchStep
    \/ \E v \in Texts \cup {None} : HandlerReturns(v)
    \/ HandlerRaises
    \/ AfterHandler
    \/ SleepTick
    \/ SleepDone
    \/ Stop
    \/ Restart

SpecMonitor == Init /\ [][NextMonitor]_vars

(***************************************************************************)
(* GrokBot: initialize and shutdown (main.py)                              *)
(***************************************************************************)
\* initialize, lines 45-110: the next component is built; the health server only
\* when the configuration enables it
InitializeStep(enabled) ==
    /\ bot.phase = "new"
    /\ LET c == InitOrder[bot.built + 1]
       IN bot' = [bot EXCEPT !.built = @ + 1,
                             !.present = IF c = "health" /\ ~enabled THEN @ ELSE @ \cup {c},
                             !.phase = IF bot.built + 1 = Len(InitOrder) THEN "up" ELSE "new"]
    /\ UNCHANGED <<mentions, ret, clock, now, posted, monitorVars, observerVars, replyVars, gen>>

\* initialize raises (login, database, health server); main goes to its finally
InitializeFails ==
    /\ bot.phase = "new"
    /\ bot' = [bot EXCEPT !.phase = "failed"]
    /\ UNCHANGED <<mentions, ret, clock, now, posted, monitorVars, observerVars, replyVars, gen>>

\* the call may be made: by the signal task while the handlers are installed, by
\* main once initialize is over
MayCall(t) ==
    IF t = "signal"
    THEN "handlers" \in bot.present /\ bot.ops["handlers"] = 0
    ELSE bot.phase \in {"up", "failed"}

\* shutdown without the test of _shutdown_started
CallShutdownAgain(t) ==
    /\ bot.call[t].pc = "idle"
    /\ MayCall(t)
    /\ bot' = [bot EXCEPT !.shutdown_started = TRUE,
                          !.call[t] = [pc |-> "closing", at |-> 1]]
    /\ UNCHANGED <<mentions, ret, clock, now, posted, monitorVars, observerVars, replyVars, gen>>

\* shutdown, lines 243-252: return when a shutdown has started; else set the flag
\* and cancel the current task, which takes effect at its next suspension
CallShutdown(t) ==
    /\ bot.call[t].pc = "idle"
    /\ MayCall(t)
    /\ IF bot.shutdown_started
       THEN bot' = [bot EXCEPT !.call[t].pc = "noop"]
       ELSE bot' = [bot EXCEPT !.shutdown_started = TRUE,
                               !.call[t] = [pc |-> "closing", at |-> 1]]
    /\ UNCHANGED <<mentions, ret, clock, now, posted, monitorVars, observerVars, replyVars, gen>>

\* the await on the component's stop or close suspends the task: never for the
\* monitor's stop and the handlers' cleanup, always for the database connection,
\* and for the others when they hold a client or a server (suspends)
Suspends(c, suspends) ==
    CASE c \in {"monitor", "handlers"} -> FALSE
      [] c = "db" -> TRUE
      [] OTHER -> suspends

\* shutdown, lines 254-275: the next component, when the bot has it, is stopped or
\* closed; the cancellation requested at line 252 ends the call at the first await
\* that suspends
ShutdownStep(t, suspends) ==
    /\ bot.call[t].pc = "closing"
    /\ LET c == ShutdownOrder[bot.call[t].at]
           next == IF bot.call[t].at = Len(ShutdownOrder)
                   THEN [pc |-> "complete", at |-> 0]
                   ELSE [pc |-> "closing", at |-> bot.call[t].at + 1]
       IN IF c \notin bot.present
          THEN /\ bot' = [bot EXCEPT !.call[t] = next]
               /\ UNCHANGED running
          ELSE /\ bot' = [bot EXCEPT !.ops[c] = @ + 1,
                                     !.call[t] = IF Suspends(c, suspends)
                                                 THEN [pc |-> "cancelled", at |-> 0]
                                                 ELSE next]
               /\ running' = IF c = "monitor" THEN FALSE ELSE running
    /\ UNCHANGED <<mentions, ret, clock, now, posted, pc, cursor, total_synced, pending, cur,
                   reply_content, slept, observerVars, replyVars, gen>>

\* MentionMonitor.run is entered by GrokBot.run (line 238) once initialize is over
BotRun ==
    /\ bot.phase = "up"
    /\ pc = "init"
    /\ running' = TRUE
    /\ pc' = "loop"
    /\ UNCHANGED <<mentions, ret, clock, now, posted, cursor, total_synced, pending, cur,
                   reply_content, slept, observerVars, replyVars, bot, gen>>

NextShutdown ==
    \/ \E enabled \in BOOLEAN : InitializeStep(enabled)
    \/ InitializeFails
    \/ BotRun
    \/ \E t \in Tasks : CallShutdown(t)
    \/ \E t \in Tasks, suspends \in BOOLEAN : ShutdownStep(t, suspends)

SpecShutdown == Init /\ [][NextShutdown]_vars

(***************************************************************************)
(* Claims on the pipeline                                                  *)
(***************************************************************************)
\* C2: the reply endpoint is posted to at most once for any mention id.
C2_PostAtMostOnce == \A i \in FeedIds : posted[i] <= 1

\* a mention was posted for and left processing by a stop or a kill, and the driver,
\* in a later iteration, is about to post for another mention
C2_Witness ==
    /\ pc = "reply"
    /\ \E r \in mentions : r.id # cur /\ r.status = "processing" /\ posted[r.id] = 1

\* C3: a row has status replied if and only if its reply text is not NULL.
C3_RepliedIffText ==
    \A r \in mentions : (r.status = "replied") <=> (r.reply_content # None)

\* a replied row with its text beside a skipped row and a processing row
C3_Witness ==
    /\ \E r \in mentions : r.status = "replied" /\ r.reply_content = "hi"
    /\ \E r \in mentions : r.status = "skipped" /\ r.reply_content = None
    /\ \E r \in mentions : r.status = "processing"

LegalTransitions ==
    {<<"pending", "processing">>, <<"processing", "replied">>, <<"processing", "skipped">>,
     <<"processing", "failed">>, <<"processing", "pending">>}

\* C4: every step that changes the status of a row makes one of the legal moves.
C4_LegalTransitions ==
    [][\A r \in mentions : \A q \in mentions' :
          (q.id = r.id /\ q.status # r.status)
             => <<r.status, q.status>> \in LegalTransitions]_vars

\* rows in three of the statuses the moves lead to, while the driver handles a mention
C4_Witness ==
    /\ pc = "handled"
    /\ \E r \in mentions : r.status = "replied"
    /\ \E r \in mentions : r.status = "skipped"
    /\ \E r \in mentions : r.id = cur /\ r.status = "processing"

\* the row is processing and was last written more than the timeout ago
Stale(r) ==
    r.status = "processing" /\ clock - r.updated_at > processing_timeout_minutes

\* C5 (as claimed): the step that begins an iteration of the driver resets every
\* stale processing row to pending.
C5_StaleReset ==
    [][(pc = "loop" /\ running /\ pc' = "sync") =>
          \A r \in mentions : Stale(r) =>
             \E q \in mentions' : q.id = r.id /\ q.status = "pending"]_vars

\* C7 (as claimed): a row the driver marks processing has the greatest ctime among
\* the rows pending at that moment.
C7_NewestFirst ==
    [][\A r \in mentions : \A q \in mentions' :
          (q.id = r.id /\ r.status = "pending" /\ q.status = "processing")
             => \A o \in PendingRows(mentions) : o.ctime <= r.ctime]_vars

\* the row of the mention in hand after the step
CurRowAfter(status) ==
    \E q \in mentions' : q.id = cur /\ q.status = status /\ q.reply_content = None

\* C13 (as claimed): when the POST of the reply failed, the terminal write marks the
\* mention failed, with no reply text.
C13_SendFailureFailed ==
    [][(pc = "handled" /\ reply_content = None /\ posted[cur] >= 1 /\ pc' = "batch")
          => CurRowAfter("failed")]_vars

\* C14 (as claimed): when the generation of the reply failed, the terminal write
\* marks the mention failed and nothing was posted for it.
C14_GenerationFailureFailed ==
    [][(pc = "handled" /\ reply_content = None /\ posted[cur] = 0 /\ pc' = "batch")
          => CurRowAfter("failed") /\ posted'[cur] = 0]_vars

\* C15: when the handler hands back the empty string the producer returned, the
\* terminal write marks the mention skipped with no reply text, and no other row
\* changes.
C15_EmptyReplySkipped ==
    [][(pc = "handled" /\ reply_content = "" /\ pc' = "batch")
          => /\ CurRowAfter("skipped")
             /\ \A o \in mentions : o.id # cur => o \in mentions']_vars

\* the mention in hand was written skipped, with no text, on an empty reply
C15_Witness ==
    /\ pc = "batch"
    /\ reply_content = ""
    /\ \E r \in mentions : r.id = cur /\ r.status = "skipped" /\ r.reply_content = None

\* C16: a step that marks a row failed changes the row of the mention in hand only,
\* which was processing, leaves the rest of the batch to be visited and the driver
\* running in its loop.
C16_ErrorIsolated ==
    [][\A r \in mentions : \A q \in mentions' :
          (q.id = r.id /\ r.status # "failed" /\ q.status = "failed")
             => /\ r.id = cur /\ r.status = "processing" /\ q.reply_content = None
                /\ \A o \in mentions : o.id # r.id => o \in mentions'
                /\ pending' = pending
                /\ pc' = "batch"
                /\ running' = running]_vars

\* after the handler raised on one mention, which is failed, the driver has handled
\* another mention and a later iteration has marked a third one
C16_Witness ==
    /\ pc = "handled"
    /\ \E f \in mentions : f.status = "failed" /\ f.id # cur
    /\ \E r \in mentions : r.status = "replied"
    /\ \E r \in mentions : r.id = cur /\ r.status = "processing"

\* C17: with the stop flag raised during the sleep loop, the loop makes no further
\* one-second pass (the one under way ends), the driver leaves the sleep for the
\* loop head and from there returns without another iteration.
C17_StopDuringSleep ==
    [][(~running /\ pc' # "init") =>
          /\ pc = "sleep" => (pc' \in {"sleep", "loop"} /\ slept' \in {slept, 0})
          /\ pc = "loop" => pc' \in {"loop", "done"}
          /\ pc = "done" => pc' = "done"]_vars

\* the stop flag was raised after one pass of a sleep loop of more than one
C17_Witness ==
    /\ pc = "sleep"
    /\ ~running
    /\ slept >= 1
    /\ slept < poll_interval

\* C18: while the stop flag is raised, no step fetches a page (the cursor and the
\* count stay, no row is inserted) and no step marks a row processing.
C18_NoNewWorkAfterStop ==
    [][(~running /\ pc' # "init") =>
          /\ {r.id : r \in mentions'} = {r.id : r \in mentions}
          /\ cursor' = cursor
          /\ total_synced' = total_synced
          /\ \A r \in mentions : \A q \in mentions' :
                (q.id = r.id /\ q.status = "processing") => r.status = "processing"]_vars

\* the stop flag was raised while the driver, having handled one mention of a batch,
\* has another left to visit, which is pending
C18_Witness ==
    /\ pc = "batch"
    /\ ~running
    /\ pending # <<>>
    /\ \E r \in mentions : r.status \in {"replied", "skipped"}
    /\ \E r \in mentions : r.id = Head(pending) /\ r.status = "pending"
\* C19: a shutdown call made when a shutdown has started does nothing and returns:
\* it stops or closes no component and leaves the monitor's flag; no component is
\* ever stopped or closed twice.
C19_ShutdownIdempotent ==
    [][/\ \A t \in Tasks :
             (bot.shutdown_started /\ bot.call[t].pc = "idle" /\ bot'.call[t].pc # "idle")
                => /\ bot'.call[t].pc = "noop"
                   /\ bot'.ops = bot.ops
                   /\ bot'.shutdown_started
                   /\ running' = running
       /\ \A t \in Tasks : bot.call[t].pc = "noop" => bot'.call[t] = bot.call[t]
       /\ \A c \in Components : bot'.ops[c] <= 1]_vars

\* the signal task's shutdown was cancelled after it had stopped the monitor, and
\* the call of main has returned without doing anything
C19_Witness ==
    /\ bot.call["signal"].pc = "cancelled"
    /\ bot.call["main"].pc = "noop"
    /\ bot.ops["monitor"] = 1
    /\ ~running

(***************************************************************************)
(* sync_mentions called directly (as tests/test_mention.py does), between   *)
(* status updates of stored rows                                           *)
(***************************************************************************)
UpdateBetweenSweeps ==
    /\ pc = "init"
    /\ \E id \in FeedIds :
          /\ HasId(mentions, id)
          /\ mentions' = UpdateMentionStatus(mentions, id, "replied", "hi", clock)
          /\ ret' = [op |-> "update_mention_status", id |-> id, val |-> <<>>]
    /\ sweepBase' = {}
    /\ sweepItems' = {}
    /\ sweepLast' = "none"
    /\ UNCHANGED <<clock, now, posted, monitorVars, replyVars, bot, gen>>

NextSweep ==
    \/ CallSyncMentions
    \/ SyncStopped(TRUE)
    \/ \E mentions_ \in Pages, next \in Cursors : SyncPage(TRUE, mentions_, next)
    \/ SyncFetchError(TRUE)
    \/ Stop
    \/ UpdateBetweenSweeps

SpecSweep == Init /\ [][NextSweep]_vars

(***************************************************************************)
(* Claims on the sweep                                                     *)
(***************************************************************************)
\* a sweep is under way or has just returned or raised
SweepObserved == pc = "sync" \/ ret.op \in {"sync_mentions", "sync_mentions raised"}

\* the kinds of the allow-set: ordinary reply and dynamic-post mention, as numbers
\* and as strings in any letter case
AllowSet ==
    {Num(1), Num(2), Num(17), Txt("reply"), Txt("REPLY"), Txt("dynamic"), Txt("Dynamic")}

Actionable(it) == ~it.hide_reply_button /\ it.type \in AllowSet

\* the rows the sweep has inserted
Inserted == mentions \ sweepBase

C9_SyncCount ==
    ret.op = "sync_mentions" =>
        /\ ret.val[1] = Cardinality(Inserted)
        /\ ret.val[1] = Cardinality({it.id : it \in {i \in sweepItems : Actionable(i)}}
                                       \ {r.id : r \in sweepBase})
        /\ \A r \in Inserted : r.status = "pending" /\ r.reply_content = None
        /\ sweepBase \subseteq mentions
        /\ UniqueIds(mentions)

\* a sweep over a store with a replied row has returned 2, having also fetched an
\* item of the replied row's id, the same new id twice and a hidden item
C9_Witness ==
    /\ ret.op = "sync_mentions"
    /\ ret.val = <<2>>
    /\ \E r \in sweepBase : r.status = "replied" /\ \E it \in sweepItems : it.id = r.id
    /\ \E i1, i2 \in sweepItems : i1 # i2 /\ i1.id = i2.id /\ ~HasId(sweepBase, i1.id)
    /\ \E it \in sweepItems : it.hide_reply_button


(***************************************************************************)
(* BilibiliAgent.generate_reply: agent.py                                  *)
(***************************************************************************)
MaxTimeout == 2
Timeouts == 1..MaxTimeout

\* what the agent task can end with: a result with messages, a result with an empty
\* message list, a result the reply cannot be read from, or an exception
TaskResults == {"result", "nomessages", "malformed"}
TaskEnds == TaskResults \cup {"raised"}

\* the except clauses without the clause for CancelledError
ExceptClausesNoCancel(e) ==
    IF e \in {"TimeoutError", "Exception", "AttributeError", "AgentError"}
    THEN "AgentError"
    ELSE e

\* the except clauses of generate_reply (lines 136-140): what leaves the function
\* when e is raised inside the try
ExceptClauses(e) ==
    IF e = "CancelledError" THEN "AgentError"
    ELSE IF e \in {"TimeoutError", "Exception", "AttributeError", "AgentError"}
         THEN "AgentError"
         ELSE e

\* generate_reply is called (as tests/test_agent.py does): the agent task is created
\* and awaited under the timeout (lines 104-116)
CallGenerateReply(timeout) ==
    /\ gen.pc \in {"idle", "returned", "raised"}
    /\ gen' = [NoCall EXCEPT !.pc = "waiting", !.task = "running",
                             !.deadline = now + timeout]
    /\ UNCHANGED <<mentions, ret, clock, now, posted, monitorVars, observerVars, replyVars, bot>>

\* the agent task ends by itself
AgentEnds(end) ==
    /\ gen.pc = "waiting"
    /\ gen.task = "running"
    /\ gen' = [gen EXCEPT !.task = end]
    /\ UNCHANGED <<mentions, ret, clock, now, posted, monitorVars, observerVars, replyVars, bot>>

\* wait_for hands over the end of the task (lines 116, 125-134, 139-140)
WaitForDone ==
    /\ gen.pc = "waiting"
    /\ gen.task \in TaskEnds
    /\ gen' = IF gen.task \in {"result", "nomessages"}
              THEN [gen EXCEPT !.pc = "returned", !.why = "ok"]
              ELSE [gen EXCEPT !.pc = "raised", !.why = "error",
                               !.exc = ExceptClauses(IF gen.task = "raised" THEN "Exception"
                                                     ELSE "AttributeError")]
    /\ UNCHANGED <<mentions, ret, clock, now, posted, monitorVars, observerVars, replyVars, bot>>

\* the timeout expires: TimeoutError is caught, the task is cancelled and awaited
\* (lines 117-121)
TimeoutFires ==
    /\ gen.pc = "waiting"
    /\ gen.task = "running"
    /\ now >= gen.deadline
    /\ gen' = [gen EXCEPT !.pc = "cancelling", !.task = "cancelling"]
    /\ UNCHANGED <<mentions, ret, clock, now, posted, monitorVars, observerVars, replyVars, bot>>

\* the cancelled task ends, with CancelledError or with another exception, both
\* passed over (lines 120-123); the AgentError raised at line 123 goes through the
\* clause of lines 139-140
CancelCompletes(end) ==
    /\ gen.pc = "cancelling"
    /\ gen' = [gen EXCEPT !.pc = "raised", !.task = end, !.why = "timeout",
                          !.exc = ExceptClauses("AgentError")]
    /\ UNCHANGED <<mentions, ret, clock, now, posted, monitorVars, observerVars, replyVars, bot>>

\* the caller is cancelled while it waits at line 116: wait_for cancels the task
\* and CancelledError is raised in generate_reply. When the task has just ended,
\* wait_for either hands its end over or raises the cancellation, by the version
\* of the library.
CancelCaller(handedOver) ==
    /\ gen.pc = "waiting"
    /\ IF gen.task = "running" \/ ~handedOver
       THEN gen' = [gen EXCEPT !.pc = "raised", !.why = "cancelled",
                               !.task = IF gen.task = "running" THEN "cancelled" ELSE @,
                               !.exc = ExceptClauses("CancelledError")]
       ELSE gen' = IF gen.task \in {"result", "nomessages"}
                   THEN [gen EXCEPT !.pc = "returned", !.why = "ok"]
                   ELSE [gen EXCEPT !.pc = "raised", !.why = "error",
                                    !.exc = ExceptClauses(IF gen.task = "raised"
                                                          THEN "Exception"
                                                          ELSE "AttributeError")]
    /\ UNCHANGED <<mentions, ret, clock, now, posted, monitorVars, observerVars, replyVars, bot>>

NextAgent ==
    \/ \E timeout \in Timeouts : CallGenerateReply(timeout)
    \/ \E end \in TaskEnds : AgentEnds(end)
    \/ WaitForDone
    \/ TimeoutFires
    \/ \E end \in {"cancelled", "raised"} : CancelCompletes(end)
    \/ \E handedOver \in BOOLEAN : CancelCaller(handedOver)
    \/ TickSecond

SpecAgent == Init /\ [][NextAgent]_vars

\* C30: generate_reply ends either by returning a text or by raising AgentError;
\* an error of the agent, the expiry of the timeout and a cancellation of the
\* caller all end it with AgentError, and when the timeout expired the agent task
\* has been cancelled and has ended before the error is raised
C30_OnlyAgentError ==
    /\ gen.pc = "raised" => gen.exc = "AgentError" /\ gen.why \in {"error", "timeout", "cancelled"}
    /\ gen.pc = "returned" => gen.exc = "none" /\ gen.why = "ok"
    /\ gen.why \in {"error", "timeout", "cancelled"} => gen.pc = "raised"
    /\ gen.why = "timeout" => gen.task \in {"cancelled", "raised"}
    /\ gen.pc \in {"returned", "raised"} => gen.task \notin {"running", "cancelling"}

C30_Witness ==
    /\ gen.pc = "raised"
    /\ gen.why = "timeout"
    /\ gen.task = "cancelled"
    /\ gen.exc = "AgentError"
    /\ now >= gen.deadline


(***************************************************************************)
(* The worker task is cancelled while the handler awaits generate_reply    *)
(***************************************************************************)
\* The CancelledError is raised inside generate_reply at line 116 of agent.py and
\* leaves it as ExceptClauses gives. An Exception is caught by _handle_mention
\* (main.py 230-232), which returns None; a CancelledError passes the handler and
\* process_mentions and ends run (mention.py 269-272).
CancelDuringGenerate ==
    /\ pc = "generate"
    /\ gen.pc = "idle"
    /\ gen' = [NoCall EXCEPT !.pc = "raised", !.task = "cancelled", !.why = "cancelled",
                             !.exc = ExceptClauses("CancelledError"), !.mention = cur]
    /\ IF ExceptClauses("CancelledError") = "CancelledError"
       THEN /\ running' = FALSE
            /\ pc' = "done"
            /\ UNCHANGED reply_content
       ELSE /\ reply_content' = None
            /\ pc' = "handled"
            /\ UNCHANGED running
    /\ UNCHANGED <<mentions, ret, clock, now, posted, cursor, total_synced, pending, cur,
                   slept, observerVars, replyVars, bot>>

NextCancel ==
    \/ Next
    \/ CancelDuringGenerate

SpecCancel == Init /\ [][NextCancel]_vars

\* C21: a mention during whose reply generation the worker was cancelled gets no
\* terminal status: it stays processing
C21_CancelLeavesProcessing ==
    gen.why = "cancelled" =>
        \A r \in mentions : r.id = gen.mention => r.status = "processing"


(***************************************************************************)
(* Claims on the statuses of stored rows                                   *)
(***************************************************************************)
TerminalStatuses == {"replied", "skipped", "failed"}

\* C22: a row that is replied, skipped or failed is left as it is by every step of
\* the driver: sweep, batch, handler outcome, sleep, stop and restart change
\* neither its status nor its reply text
C22_TerminalAbsorbing ==
    [][\A r \in mentions : r.status \in TerminalStatuses => r \in mentions']_vars

\* a sweep of a later iteration has inserted a row beside a failed row and a row
\* that is replied or skipped
C22_Witness ==
    /\ pc = "sync"
    /\ total_synced >= 1
    /\ \E r \in mentions : r.status = "failed"
    /\ \E r \in mentions : r.status \in {"replied", "skipped"}
    /\ \E r \in mentions : r.status = "pending"


\* C23: while the handler works on a mention (context fetch, reply generation,
\* POST of the reply) the stored row of that mention is processing, and no POST
\* was ever made for a row that is still pending
C23_ProcessingBeforeCalls ==
    /\ pc \in {"generate", "reply"} =>
          \E r \in mentions : r.id = cur /\ r.status = "processing"
    /\ \A r \in mentions : posted[r.id] > 0 => r.status # "pending"

\* the handler is about to post for a processing row while another row is pending
C23_Witness ==
    /\ pc = "reply"
    /\ \E r \in mentions : r.id = cur /\ r.status = "processing" /\ posted[r.id] = 0
    /\ \E r \in mentions : r.status = "pending" /\ posted[r.id] = 0
    /\ \E r \in mentions : r.status = "replied" /\ posted[r.id] > 0


(***************************************************************************)
(* More claims on the sweep                                                *)
(***************************************************************************)
\* C24: when a sweep has fetched an item whose id was stored before the sweep began
\* (its insert reported the row as present), every actionable item the sweep has
\* fetched, on the same page or on another one, is in the store all the same
C24_KnownDoesNotStop ==
    SweepObserved =>
        \A known \in sweepItems : \A it \in sweepItems :
            (HasId(sweepBase, known.id) /\ Actionable(it)) => HasId(mentions, it.id)

\* a sweep has returned after it fetched the items of two rows stored before and
\* inserted a new row
C24_Witness ==
    /\ ret.op = "sync_mentions"
    /\ Cardinality({it.id : it \in {i \in sweepItems : HasId(sweepBase, i.id)}}) >= 2
    /\ Cardinality(Inserted) >= 1


\* C25: a sweep begins with cursor 0; each pass fetches one page and keeps the
\* cursor returned with it; the sweep goes on to another pass exactly when the page
\* had items and the returned cursor is not 0, and otherwise returns in that very
\* step; the actionable items of every fetched page, the last one included, are
\* in the store
C25_Pagination ==
    [][/\ (pc = "init" /\ pc' = "sync") => cursor' = 0 /\ sweepLast' = "none"
       /\ (pc = "sync" /\ running /\ running' /\ ret'.op # "sync_mentions raised") =>
             /\ sweepLast' \in {"empty", "items"}
             /\ pc' = "sync" <=> (sweepLast' = "items" /\ cursor' # 0)
             /\ pc' # "sync" => pc' = "init" /\ ret'.op = "sync_mentions"
             /\ \A it \in sweepItems' : Actionable(it) => HasId(mentions', it.id)]_vars

\* a sweep of more than one page has returned on a page with items and cursor 0,
\* and an item of that page was inserted
C25_Witness ==
    /\ ret.op = "sync_mentions"
    /\ sweepLast = "items"
    /\ cursor = 0
    /\ Cardinality({it.id : it \in sweepItems}) > MaxPage
    /\ Cardinality(Inserted) > MaxPage


(***************************************************************************)
(* Claims on the driver loop                                               *)
(***************************************************************************)
\* C26: when the sweep of the driver ends on a failed page fetch, the driver goes
\* to its poll sleep with the flag up and the store as the sweep left it, rows
\* inserted from earlier pages included; the sleep leads back to the loop head and
\* the loop head, with the flag up, to the next sweep
C26_FetchErrorNotFatal ==
    [][/\ (pc = "sync" /\ pc' \notin {"sync", "process", "init"}) =>
             pc' = "sleep" /\ running /\ running' /\ mentions' = mentions
       /\ (pc = "sleep" /\ pc' \notin {"sleep", "init"}) => pc' = "loop"
       /\ (pc = "loop" /\ running /\ pc' \notin {"loop", "init"}) => pc' = "sync"]_vars

\* the driver sleeps with the flag up after a sweep that inserted a row and then
\* failed: the row is still pending, though the batch would have taken it
C26_Witness ==
    /\ pc = "sleep"
    /\ running
    /\ total_synced >= 1
    /\ Cardinality(mentions) <= batch_size
    /\ \E r \in mentions : r.status = "pending"

\* C27: a sweep of the driver that ends on a failed page fetch is followed, in the
\* same iteration, by the batch of the pending rows
C27_ProcessAfterFetchError ==
    [][(/\ pc = "sync" /\ running /\ running' /\ pc' \notin {"sync", "init"}
        /\ \E r \in mentions : r.status = "pending")
          => pc' = "process"]_vars


\* C28: the batch of an iteration is drawn once, on entry to process_mentions, and
\* holds at most batch_size ids; a row is marked processing only as the head of
\* that batch, which the mark removes from it. So an iteration marks at most
\* batch_size rows.
C28_BatchCap ==
    [][/\ Len(pending') <= batch_size
       /\ Len(pending') > Len(pending) => pc = "process"
       /\ \A r \in mentions : \A q \in mentions' :
             (q.id = r.id /\ r.status # "processing" /\ q.status = "processing")
                => /\ pending # <<>>
                   /\ r.id = Head(pending)
                   /\ pending' = Tail(pending)]_vars

\* the batch of an iteration is through, batch_size rows have been handled and the
\* flag is up, and a row is still pending
C28_Witness ==
    /\ pc = "batch"
    /\ pending = <<>>
    /\ running
    /\ Cardinality({r \in mentions : r.status \in TerminalStatuses}) = batch_size
    /\ \E r \in mentions : r.status = "pending"


(***************************************************************************)
(* More claims on the store                                                *)
(***************************************************************************)
\* C29 (as claimed): update_mention_status for a move outside the legal set raises
\* an error and leaves the table as it was
C29_IllegalTransitionRejected ==
    [][\A id \in Ids, s \in Statuses, rc \in {None, "hi"} :
          (ret'.op = "update_mention_status" /\ ret'.id = id
             /\ CallUpdateMentionStatus(id, s, rc))
             => \A r \in mentions :
                   (r.id = id /\ r.status # s /\ <<r.status, s>> \notin LegalTransitions)
                      => ret'.val = <<"Error">> /\ mentions' = mentions]_vars

\* C29 (amended): update_mention_status checks no transition: for a stored id it
\* returns None and sets status and reply text to its arguments whatever the
\* status of the row was, and leaves the other rows as they were
C29_UpdateUnchecked ==
    [][\A id \in Ids, s \in Statuses, rc \in {None, "hi"} :
          (ret'.op = "update_mention_status" /\ ret'.id = id
             /\ CallUpdateMentionStatus(id, s, rc))
             => /\ ret'.val = <<>>
                /\ \A r \in mentions :
                      IF r.id = id
                      THEN [r EXCEPT !.status = s, !.reply_content = rc,
                                     !.updated_at = clock] \in mentions'
                      ELSE r \in mentions'
                /\ Cardinality(mentions') <= Cardinality(mentions)]_vars

\* an update has set a row to pending with a reply text, beside a replied row
\* without one
C29_Witness ==
    /\ ret.op = "update_mention_status"
    /\ \E r \in mentions : r.id = ret.id /\ r.status = "pending" /\ r.reply_content = "hi"
    /\ \E r \in mentions : r.id # ret.id /\ r.status = "replied" /\ r.reply_content = None


(***************************************************************************)
(* GracefulShutdown: health.py                                             *)
(***************************************************************************)
MaxCallbacks == 3

\* how a callback ends: it returns, it raises an Exception, or the task it runs on
\* is cancelled while it is suspended (GrokBot.shutdown, the callback main.py
\* registers at line 107, cancels its own task). Only a coroutine function suspends.
CallbackEnds(kind) ==
    IF kind = "async" THEN {"returns", "Exception", "CancelledError"}
    ELSE {"returns", "Exception"}

\* _shutdown, lines 144-145: except Exception
ShutdownCatches(e) == e = "Exception"

\* register_callback, lines 127-129; while _shutdown runs, its loop over the list
\* meets a callback appended behind its position
RegisterCallback(kind) ==
    /\ bot.gs.pc # "ended"
    /\ Len(bot.gs.callbacks) < MaxCallbacks
    /\ bot' = [bot EXCEPT !.gs.callbacks = Append(@, kind)]
    /\ UNCHANGED <<mentions, ret, clock, now, posted, monitorVars, observerVars, replyVars, gen>>

\* _shutdown is entered (lines 136-138); with no callback it sets the event at once
\* (line 147)
EnterShutdown ==
    /\ bot.gs.pc = "idle"
    /\ bot' = IF bot.gs.callbacks = <<>>
              THEN [bot EXCEPT !.gs.pc = "ended", !.gs.event = TRUE]
              ELSE [bot EXCEPT !.gs.pc = "running", !.gs.at = 1]
    /\ UNCHANGED <<mentions, ret, clock, now, posted, monitorVars, observerVars, replyVars, gen>>

\* one pass of the loop (lines 138-145): the callback is called or awaited; an
\* Exception is caught and printed, any other exception leaves _shutdown; after the
\* last callback the event is set (line 147)
InvokeCallback(end) ==
    /\ bot.gs.pc = "running"
    /\ end \in CallbackEnds(bot.gs.callbacks[bot.gs.at])
    /\ LET logged == Append(bot.gs.log, <<bot.gs.at, end>>)
       IN bot' =
             IF end # "returns" /\ ~ShutdownCatches(end)
             THEN [bot EXCEPT !.gs.log = logged, !.gs.pc = "ended"]
             ELSE IF bot.gs.at = Len(bot.gs.callbacks)
                  THEN [bot EXCEPT !.gs.log = logged, !.gs.pc = "ended", !.gs.event = TRUE]
                  ELSE [bot EXCEPT !.gs.log = logged, !.gs.at = @ + 1]
    /\ UNCHANGED <<mentions, ret, clock, now, posted, monitorVars, observerVars, replyVars, gen>>

NextSignal ==
    \/ \E kind \in {"async", "sync"} : RegisterCallback(kind)
    \/ EnterShutdown
    \/ \E end \in {"returns", "Exception", "CancelledError"} : InvokeCallback(end)

SpecSignal == Init /\ [][NextSignal]_vars

\* C31 (as claimed): the event is clear until _shutdown is over; when _shutdown is
\* over every registered callback has been invoked once, in the order of
\* registration, whatever the callbacks before it raised, and the event is set
C31_AllCallbacksThenEvent ==
    /\ bot.gs.pc # "ended" => ~bot.gs.event
    /\ \A k \in 1..Len(bot.gs.log) : bot.gs.log[k][1] = k
    /\ bot.gs.pc = "ended" =>
          /\ Len(bot.gs.log) = Len(bot.gs.callbacks)
          /\ bot.gs.event


(***************************************************************************)
(* The driver under the scheduling of the event loop: a task that can take a *)
(* step (its await has ended) takes it. No crash: the process is not        *)
(* restarted.                                                              *)
(***************************************************************************)
\* the steps of the driver task
DriverStep ==
    \/ Run
    \/ LoopHead
    \/ SyncStopped(FALSE)
    \/ \E mentions_ \in Pages, next \in Cursors : SyncPage(FALSE, mentions_, next)
    \/ SyncFetchError(FALSE)
    \/ ProcessEnter
    \/ BatchStep
    \/ \E text \in Texts : HandlerGenerate(text)
    \/ HandlerGenerateFails
    \/ \E resp \in Responses : HandlerReply(ReplyOutcome(resp).kind = "return")
    \/ AfterHandler
    \/ SleepTick
    \/ SleepDone

NextLive ==
    \/ DriverStep
    \/ Stop

SpecLive == Init /\ [][NextLive]_vars /\ WF_vars(DriverStep)

\* C32 (as claimed): once the handler has returned the text the platform accepted,
\* the row of the mention becomes replied with a text stored, whether or not the
\* stop flag is raised meanwhile
C32_AcceptedLeadsToReplied ==
    \A i \in FeedIds :
        (pc = "handled" /\ cur = i /\ Truthy(reply_content))
            ~> (\E r \in mentions : r.id = i /\ r.status = "replied" /\ r.reply_content # None)


\* C33 (as claimed): the handler posts only a non-empty generated text, and no POST
\* was ever made for a row that is skipped
C33_SkippedNeverPosted ==
    /\ pc = "reply" => Truthy(reply_content)
    /\ \A r \in mentions : r.status = "skipped" => posted[r.id] = 0


(***************************************************************************)
(* The driver with a finite feed and no fetch error, stop or crash          *)
(***************************************************************************)
\* the steps of the driver task other than a pass of the sweep that is told of
\* another page: a finite feed ends every sweep
FiniteFeedStep ==
    \/ Run
    \/ LoopHead
    \/ \E mentions_ \in Pages : SyncPage(FALSE, mentions_, 0)
    \/ ProcessEnter
    \/ BatchStep
    \/ \E text \in Texts : HandlerGenerate(text)
    \/ HandlerGenerateFails
    \/ \E resp \in Responses : HandlerReply(ReplyOutcome(resp).kind = "return")
    \/ AfterHandler
    \/ SleepTick
    \/ SleepDone

NextFair ==
    \/ FiniteFeedStep
    \/ \E mentions_ \in Pages, next \in Cursors \ {0} : SyncPage(FALSE, mentions_, next)

SpecFair == Init /\ [][NextFair]_vars /\ WF_vars(FiniteFeedStep)

\* C34: every row that is pending becomes replied, skipped or failed
C34_PendingLeadsToTerminal ==
    \A i \in FeedIds :
        (\E r \in mentions : r.id = i /\ r.status = "pending")
            ~> (\E r \in mentions : r.id = i /\ r.status \in TerminalStatuses)

\* more rows than a batch takes have all been handled
C34_Witness ==
    /\ Cardinality(mentions) > batch_size
    /\ \A r \in mentions : r.status \in TerminalStatuses
    /\ pc = "sleep"


(***************************************************************************)
(* stop called on the monitor directly, at any time, run included before    *)
(***************************************************************************)
\* MentionMonitor.stop (lines 280-283) called by a task of its own; it returns None
CallStop ==
    /\ running' = FALSE
    /\ ret' = [op |-> "stop", id |-> 0, val |-> <<>>]
    /\ UNCHANGED <<mentions, clock, now, posted, pc, cursor, total_synced, pending, cur,
                   reply_content, slept, observerVars, replyVars, bot, gen>>

NextStopFirst ==
    \/ DriverStep
    \/ CallStop

SpecStopFirst == Init /\ [][NextStopFirst]_vars

\* C35 (as claimed): once stop has been called, before run or after, the loop head
\* begins no iteration, and run called after the stop leaves the flag down
C35_StopNeverLost ==
    [][ret.op = "stop" =>
          /\ (pc = "init" /\ pc' = "loop") => ~running'
          /\ pc = "loop" => pc' # "sync"]_vars


(***************************************************************************)
(* The endpoint of the POST: reply.py                                      *)
(***************************************************************************)
\* CommentReply._get_type_name (lines 78-87): type_map.get(type_, "reply"); the
\* keys of the map are 1, 2, 4, "reply" and "dynamic"
GetTypeName(type_) ==
    CASE type_ = Num(1) -> "reply"
      [] type_ = Num(2) -> "like"
      [] type_ = Num(4) -> "share"
      [] type_ = Txt("reply") -> "reply"
      [] type_ = Txt("dynamic") -> "reply"
      [] OTHER -> "reply"

\* C36 (as claimed): the POST the handler is about to make for a mention goes to the
\* endpoint named "reply" (reply_to_comment posts to /x/v2/<type name>/add with the
\* type of the stored mention)
C36_AcceptedKindsToReply ==
    pc = "reply" => \A r \in mentions : r.id = cur => GetTypeName(r.type) = "reply"

\* C37 (as claimed): a shutdown call of a bot that is up, once it is over, has
\* stopped or closed every component the bot has
C37_ShutdownRunsEveryStep ==
    \A t \in Tasks :
        (bot.phase = "up" /\ bot.call[t].pc \in {"complete", "cancelled"})
            => \A c \in bot.present : bot.ops[c] = 1


(***************************************************************************)
(* Claims on the statistics                                                *)
(***************************************************************************)
\* a reported count, NULL taken as 0
CountOf(v) == IF v = <<>> THEN 0 ELSE v[1]

\* C38 (as claimed): the total get_stats reports is the sum of the counts it reports
\* for pending, processing, replied and failed
C38_StatsTotalIsSum ==
    ret.op = "get_stats" =>
        ret.val[1].total = CountOf(ret.val[1].pending) + CountOf(ret.val[1].processing)
                           + CountOf(ret.val[1].replied) + CountOf(ret.val[1].failed)

====
